---- MODULE Spec2Model ----
(***************************************************************************)
(* A model of the foodgram backend (backend/api): the relational store     *)
(* (models.py), the request handlers of the user and recipe viewsets       *)
(* (views.py) and the recipe write serializer (serializers.py).            *)
(*                                                                         *)
(* Requests are served by NumProcs workers that share the store.  A        *)
(* handler is cut at its database round trips: every query or statement    *)
(* it sends is one atomic step, and the code between two of them is local  *)
(* to the worker.  Tables are bags of rows, so that a row stored twice is  *)
(* a state the model can express and only the constraints of models.py     *)
(* keep it out.                                                            *)
(***************************************************************************)
EXTENDS Naturals, Integers, Sequences, FiniteSets, Bags, TLC

\* ------------------------------------------------------------------ bounds
NumProcs == 2
MaxUser == 2
MaxRecipe == 2
MaxCode == 3
MaxIngredient == 2
MaxTag == 2
MaxAmount == 2
MaxLen == 2
MaxLines == 1
\* constants.py
AMOUNT_MIN_VALUE == 1

Procs == 1..NumProcs
Users == 1..MaxUser
Recipes == 1..MaxRecipe
\* random 8-character url-safe tokens, cut down to a small alphabet
Codes == 1..MaxCode
Ingredients == 1..MaxIngredient
Tags == 1..MaxTag
Amounts == AMOUNT_MIN_VALUE..MaxAmount
\* ids a request body may name: the stored ones and one that does not exist
IngredientPks == 1..(MaxIngredient + 1)
TagPks == 1..(MaxTag + 1)
\* user ids a URL may name: the registered ones and one that does not exist
UserPks == 1..(MaxUser + 1)

VARIABLES
    user_tbl,        \* CustomUser: the ids of the users
    ingredient_tbl,  \* Ingredient: id -> <<name, measurement_unit>>
    recipe_seq,      \* the last id the Recipe table handed out
    recipe_tbl,      \* Recipe: id -> [author]
    recipe_tags,     \* Recipe.tags (many-to-many): id -> set of tag ids
    ingredient_list, \* IngredientInRecipe: bag of <<recipe, ingredient, amount>>
    shopping_cart,   \* ShoppingCart: bag of <<user, recipe>>
    favorites,       \* Favorite: bag of <<user, recipe>>
    subscribers,     \* Subscription: bag of <<user, subscriber>>
    short_link,      \* RecipeShortLink: bag of <<recipe, short_code>>
    issued,          \* the <<recipe, short_code>> answers get_short_link has sent
    req              \* per worker: the request it serves and where it stands

refVars == <<user_tbl, ingredient_tbl>>
recipeVars == <<recipe_seq, recipe_tbl, recipe_tags, ingredient_list>>
toggleVars == <<shopping_cart, favorites, subscribers>>
store == <<user_tbl, ingredient_tbl, recipe_seq, recipe_tbl, recipe_tags,
           ingredient_list, shopping_cart, favorites, subscribers, short_link>>
vars == <<user_tbl, ingredient_tbl, recipe_seq, recipe_tbl, recipe_tags,
          ingredient_list, shopping_cart, favorites, subscribers, short_link,
          issued, req>>

\* ------------------------------------------------------------ table helpers
\* objects.create(...) once the constraints let the row in
InsertRow(tbl, row) == tbl (+) SetToBag({row})
\* queryset.delete(): every row of the set goes
DeleteRows_all(tbl, rows) == EmptyBag
DeleteRows(tbl, rows) == [x \in (DOMAIN tbl) \ rows |-> tbl[x]]
\* queryset.filter(...).exists() for a fully keyed row
RowExists(tbl, row) == CopiesIn(row, tbl) > 0
\* the rows of a table that a filter selects, and how many they are
Filter(tbl, rows) == [x \in (DOMAIN tbl) \cap rows |-> tbl[x]]
Count(tbl, rows) == BagCardinality(Filter(tbl, rows))

Idle == [pc |-> "idle"]
Done(res) == [pc |-> "done", res |-> res, val |-> 0]
DoneVal(res, val) == [pc |-> "done", res |-> res, val |-> val]
Free(p) == req[p].pc \in {"idle", "done"}
Finished(p) == req[p].pc # "done" /\ req'[p].pc = "done"

\* A worker takes the next request off the wire.
Receive(p, r) ==
    /\ Free(p)
    /\ req' = [req EXCEPT ![p] = r]
    /\ UNCHANGED <<store, issued>>

\* ------------------------------------------------- constraints of models.py
\* Subscription.Meta.constraints
unique_user_subscription(tbl, row) == ~RowExists(tbl, row)
prevent_self_follow(row) == row[1] # row[2]
\* ShoppingCart.Meta.constraints
unique_add_to_shopping_cart_off(tbl, row) == TRUE
unique_add_to_shopping_cart(tbl, row) == ~RowExists(tbl, row)
\* Favorite.Meta.constraints
unique_favorite(tbl, row) == ~RowExists(tbl, row)

\* RecipeShortLink.short_code: unique=True
short_code_unique_off(tbl, row) == TRUE
short_code_unique(tbl, row) == \A x \in DOMAIN tbl : x[2] # row[2]
\* RecipeShortLink.Meta.constraints
unique_short_code_for_recipe(tbl, row) == ~RowExists(tbl, row)

\* IngredientInRecipe.Meta.constraints
unique_ingredient_in_recipe_off(tbl, row) == TRUE
unique_ingredient_in_recipe(tbl, row) ==
    \A x \in DOMAIN tbl : ~(x[1] = row[1] /\ x[2] = row[2])

\* ForeignKey fields of models.py: the store refuses a row whose target row
\* does not exist
fk_user(u) == u \in user_tbl
fk_recipe_off(r) == TRUE
fk_recipe(r) == r \in DOMAIN recipe_tbl
fk_ingredient(i) == i \in DOMAIN ingredient_tbl

\* ------------------------------------------------------------ initial store
\* A deployed instance: the users are registered and the recipes of the ids
\* in R are published, each by user 1 with one tag and one ingredient line.
SeedIngredients ==
    [i \in Ingredients |-> <<IF i = 1 THEN "egg" ELSE "flour", "g">>]
Seeded(R) ==
    /\ user_tbl = Users
    /\ ingredient_tbl = SeedIngredients
    /\ recipe_seq = Cardinality(R)
    /\ recipe_tbl = [r \in R |-> [author |-> 1]]
    /\ recipe_tags = [r \in R |-> {1}]
    /\ ingredient_list = SetToBag({<<r, 1, 1>> : r \in R})
    /\ shopping_cart = EmptyBag
    /\ favorites = EmptyBag
    /\ subscribers = EmptyBag
    /\ short_link = EmptyBag
    /\ issued = {}
    /\ req = [p \in Procs |-> Idle]

\* every recipe id is taken
InitSeeded == Seeded(Recipes)
\* the last recipe id is not taken yet: a URL naming it finds nothing
InitOneFree == Seeded(1..(MaxRecipe - 1))

\* --------------------------------------------- CustomUserViewSet.subscribe
SubscribeRequests ==
    [pc : {"recv"}, op : {"subscribe"}, method : {"POST", "DELETE"},
     user : user_tbl, pk : UserPks]

\* views.py 48-63: what the handler decides from its existence query
subscribe_check_noself(method, user, author, subscription_exists) ==
    IF method = "POST"
    THEN IF subscription_exists THEN "AlreadyExists" ELSE "proceed"
    ELSE IF ~subscription_exists THEN "NotFound" ELSE "proceed"
subscribe_check(method, user, author, subscription_exists) ==
    IF method = "POST"
    THEN IF user = author THEN "SelfReference"
         ELSE IF subscription_exists THEN "AlreadyExists" ELSE "proceed"
    ELSE IF ~subscription_exists THEN "NotFound" ELSE "proceed"

\* get_object_or_404, the existence query and the checks made on its answer
SubscribeCheck(p) ==
    /\ req[p].pc = "recv" /\ req[p].op = "subscribe"
    /\ LET r == req[p]
           subscription_exists == RowExists(subscribers, <<r.pk, r.user>>)
           verdict == subscribe_check(r.method, r.user, r.pk, subscription_exists)
       IN req' = [req EXCEPT ![p] =
                    IF r.pk \notin user_tbl THEN Done("Http404")
                    ELSE IF verdict = "proceed" THEN [r EXCEPT !.pc = "write"]
                    ELSE Done(verdict)]
    /\ UNCHANGED <<store, issued>>

\* author.subscribers.create(subscriber=user) / .filter(...).delete()
SubscribeWrite(p) ==
    /\ req[p].pc = "write" /\ req[p].op = "subscribe"
    /\ LET r == req[p]
           row == <<r.pk, r.user>>
       IN IF r.method = "POST"
          THEN IF unique_user_subscription(subscribers, row)
                  /\ prevent_self_follow(row)
                  /\ fk_user(row[1]) /\ fk_user(row[2])
               THEN /\ subscribers' = InsertRow(subscribers, row)
                    /\ req' = [req EXCEPT ![p] = Done("Created")]
               ELSE /\ subscribers' = subscribers
                    /\ req' = [req EXCEPT ![p] = Done("IntegrityError")]
          ELSE /\ subscribers' = DeleteRows(subscribers, {row})
               /\ req' = [req EXCEPT ![p] = Done("NoContent")]
    /\ UNCHANGED <<refVars, recipeVars, shopping_cart, favorites, short_link, issued>>

\* ------------------------------------------------ RecipeViewSet.shopping_cart
ShoppingCartRequests ==
    [pc : {"recv"}, op : {"shopping_cart"}, method : {"POST", "DELETE"},
     user : user_tbl, pk : Recipes]

\* views.py 206-219
shopping_cart_check_nodup(method, in_shopping_cart) ==
    IF method = "POST"
    THEN "proceed"
    ELSE IF ~in_shopping_cart THEN "NotFound" ELSE "proceed"
shopping_cart_check(method, in_shopping_cart) ==
    IF method = "POST"
    THEN IF in_shopping_cart THEN "AlreadyExists" ELSE "proceed"
    ELSE IF ~in_shopping_cart THEN "NotFound" ELSE "proceed"

ShoppingCartCheck(p) ==
    /\ req[p].pc = "recv" /\ req[p].op = "shopping_cart"
    /\ LET r == req[p]
           in_shopping_cart == RowExists(shopping_cart, <<r.user, r.pk>>)
           verdict == shopping_cart_check(r.method, in_shopping_cart)
       IN req' = [req EXCEPT ![p] =
                    IF r.pk \notin DOMAIN recipe_tbl THEN Done("Http404")
                    ELSE IF verdict = "proceed" THEN [r EXCEPT !.pc = "write"]
                    ELSE Done(verdict)]
    /\ UNCHANGED <<store, issued>>

\* user.shopping_cart.create(recipe=recipe) / .filter(recipe=recipe).delete()
ShoppingCartWrite(p) ==
    /\ req[p].pc = "write" /\ req[p].op = "shopping_cart"
    /\ LET r == req[p]
           row == <<r.user, r.pk>>
       IN IF r.method = "POST"
          THEN IF unique_add_to_shopping_cart(shopping_cart, row)
                  /\ fk_user(row[1]) /\ fk_recipe(row[2])
               THEN /\ shopping_cart' = InsertRow(shopping_cart, row)
                    /\ req' = [req EXCEPT ![p] = Done("Created")]
               ELSE /\ shopping_cart' = shopping_cart
                    /\ req' = [req EXCEPT ![p] = Done("IntegrityError")]
          ELSE /\ shopping_cart' = DeleteRows(shopping_cart, {row})
               /\ req' = [req EXCEPT ![p] = Done("NoContent")]
    /\ UNCHANGED <<refVars, recipeVars, favorites, subscribers, short_link, issued>>

\* ----------------------------------------------------- RecipeViewSet.favorite
FavoriteRequests ==
    [pc : {"recv"}, op : {"favorite"}, method : {"POST", "DELETE"},
     user : user_tbl, pk : Recipes]

\* views.py 232-245
favorite_check_nomiss(method, favorite_exists) ==
    IF method = "POST"
    THEN IF favorite_exists THEN "AlreadyExists" ELSE "proceed"
    ELSE "proceed"
favorite_check(method, favorite_exists) ==
    IF method = "POST"
    THEN IF favorite_exists THEN "AlreadyExists" ELSE "proceed"
    ELSE IF ~favorite_exists THEN "NotFound" ELSE "proceed"

FavoriteCheck(p) ==
    /\ req[p].pc = "recv" /\ req[p].op = "favorite"
    /\ LET r == req[p]
           favorite_exists == RowExists(favorites, <<r.user, r.pk>>)
           verdict == favorite_check(r.method, favorite_exists)
       IN req' = [req EXCEPT ![p] =
                    IF r.pk \notin DOMAIN recipe_tbl THEN Done("Http404")
                    ELSE IF verdict = "proceed" THEN [r EXCEPT !.pc = "write"]
                    ELSE Done(verdict)]
    /\ UNCHANGED <<store, issued>>

\* user.favorites.create(recipe=recipe) / .filter(recipe=recipe).delete()
FavoriteWrite(p) ==
    /\ req[p].pc = "write" /\ req[p].op = "favorite"
    /\ LET r == req[p]
           row == <<r.user, r.pk>>
       IN IF r.method = "POST"
          THEN IF unique_favorite(favorites, row)
                  /\ fk_user(row[1]) /\ fk_recipe(row[2])
               THEN /\ favorites' = InsertRow(favorites, row)
                    /\ req' = [req EXCEPT ![p] = Done("Created")]
               ELSE /\ favorites' = favorites
                    /\ req' = [req EXCEPT ![p] = Done("IntegrityError")]
          ELSE /\ favorites' = DeleteRows(favorites, {row})
               /\ req' = [req EXCEPT ![p] = Done("NoContent")]
    /\ UNCHANGED <<refVars, recipeVars, shopping_cart, subscribers, short_link, issued>>

\* ------------------------------------------------- the toggles on their own
ReceiveSubscribe(p) == \E r \in SubscribeRequests : Receive(p, r)
ReceiveShoppingCart(p) == \E r \in ShoppingCartRequests : Receive(p, r)
ReceiveFavorite(p) == \E r \in FavoriteRequests : Receive(p, r)

NextToggle ==
    \E p \in Procs :
        \/ ReceiveSubscribe(p)
        \/ SubscribeCheck(p)
        \/ SubscribeWrite(p)
        \/ ReceiveShoppingCart(p)
        \/ ShoppingCartCheck(p)
        \/ ShoppingCartWrite(p)
        \/ ReceiveFavorite(p)
        \/ FavoriteCheck(p)
        \/ FavoriteWrite(p)

SpecToggle == InitOneFree /\ [][NextToggle]_vars

\* ------------------------------------------------------ claims: the toggles
ToggleOps == {"subscribe", "shopping_cart", "favorite"}
ToggleTbl(op) ==
    CASE op = "subscribe" -> subscribers
      [] op = "shopping_cart" -> shopping_cart
      [] op = "favorite" -> favorites
ToggleTblNext(op) ==
    CASE op = "subscribe" -> subscribers'
      [] op = "shopping_cart" -> shopping_cart'
      [] op = "favorite" -> favorites'
\* the row of the pair a toggle request is about
ToggleRow(r) == IF r.op = "subscribe" THEN <<r.pk, r.user>> ELSE <<r.user, r.pk>>
TargetExists(r) ==
    IF r.op = "subscribe" THEN r.pk \in user_tbl ELSE r.pk \in DOMAIN recipe_tbl
OthersKept(tbl, tbl2, row) ==
    \A x \in (DOMAIN tbl \cup DOMAIN tbl2) \ {row} : CopiesIn(x, tbl2) = CopiesIn(x, tbl)

\* C1: in every reachable state each (user, recipe) pair has at most one
\* ShoppingCart row and at most one Favorite row, whatever the interleaving
\* of the add and remove requests.
C1_OneEntryPerPair ==
    \A u \in Users, r \in Recipes :
        /\ CopiesIn(<<u, r>>, shopping_cart) <= 1
        /\ CopiesIn(<<u, r>>, favorites) <= 1

\* Two adds for one pair raced: both passed the existence check, one
\* inserted the row and the other was stopped by the unique constraint.
C1_Witness ==
    \E p, q \in Procs :
        /\ req[p].pc = "done" /\ req[p].res = "Created"
        /\ req[q].pc = "done" /\ req[q].res = "IntegrityError"
        /\ \E u \in Users, r \in Recipes : CopiesIn(<<u, r>>, shopping_cart) = 1

\* C5: a subscribe POST of a user to themselves ends in SelfReference and
\* leaves the store as it was, and no Subscription row ever has its user
\* equal to its subscriber.
C5_NoSelfRow == \A u \in Users : ~RowExists(subscribers, <<u, u>>)
C5_SelfStep(p) ==
    LET r == req[p] IN
    (/\ r.pc = "recv" /\ r.op = "subscribe" /\ r.method = "POST"
     /\ r.user = r.pk /\ req'[p] # r)
    => (req'[p] = Done("SelfReference") /\ UNCHANGED store)
C5_SelfSubscriptionRejected ==
    [][\A p \in Procs : C5_SelfStep(p)]_vars /\ []C5_NoSelfRow

\* A self-subscription was refused while the same user follows, and is
\* followed by, someone else.
C5_Witness ==
    \E p \in Procs :
        /\ req[p].pc = "done" /\ req[p].res = "SelfReference"
        /\ \E u, v \in Users : u # v /\ RowExists(subscribers, <<u, v>>)

\* The two halves of a creation request, at the handler's existence query
\* and at its insert.  With selfRule the subscription of a user to
\* themselves is the exception the handler makes before it looks at the pair.
C6_Step(p, selfRule) ==
    LET r == req[p]
        row == ToggleRow(r)
    IN
    /\ (/\ r.pc = "recv" /\ r.op \in ToggleOps /\ r.method = "POST"
        /\ TargetExists(r) /\ req'[p] # r)
       => IF selfRule /\ r.op = "subscribe" /\ r.user = r.pk
          THEN req'[p] = Done("SelfReference") /\ UNCHANGED store
          ELSE IF RowExists(ToggleTbl(r.op), row)
               THEN req'[p] = Done("AlreadyExists") /\ UNCHANGED store
               ELSE req'[p] = [r EXCEPT !.pc = "write"] /\ UNCHANGED store
    /\ (/\ r.pc = "write" /\ r.op \in ToggleOps /\ r.method = "POST"
        /\ req'[p] # r)
       => /\ CopiesIn(row, ToggleTblNext(r.op)) = 1
          /\ OthersKept(ToggleTbl(r.op), ToggleTblNext(r.op), row)
          /\ ~RowExists(ToggleTbl(r.op), row) => req'[p] = Done("Created")

C7_Step(p) ==
    LET r == req[p]
        row == ToggleRow(r)
    IN
    /\ (/\ r.pc = "recv" /\ r.op \in ToggleOps /\ r.method = "DELETE"
        /\ TargetExists(r) /\ req'[p] # r)
       => IF RowExists(ToggleTbl(r.op), row)
          THEN req'[p] = [r EXCEPT !.pc = "write"] /\ UNCHANGED store
          ELSE req'[p] = Done("NotFound") /\ UNCHANGED store
    /\ (/\ r.pc = "write" /\ r.op \in ToggleOps /\ r.method = "DELETE"
        /\ req'[p] # r)
       => /\ ~RowExists(ToggleTblNext(r.op), row)
          /\ OthersKept(ToggleTbl(r.op), ToggleTblNext(r.op), row)
          /\ req'[p] = Done("NoContent")
C7_RemovalToggles == [][\A p \in Procs : C7_Step(p)]_vars

\* One removal was refused as NotFound after another had deleted a pair.
C7_Witness ==
    \E p, q \in Procs :
        /\ req[p].pc = "done" /\ req[p].res = "NotFound"
        /\ req[q].pc = "done" /\ req[q].res = "NoContent"

\* ---------------------------------------------- RecipeViewSet.get_short_link
GetShortLinkRequests == [pc : {"recv"}, op : {"get_short_link"}, pk : Recipes]

LinksOf(recipe) == {recipe} \X Codes

\* get_object_or_404 and RecipeShortLink.objects.get(recipe=recipe): one row
\* answers the request, none sends it to the generation loop, and several
\* raise MultipleObjectsReturned, which the except clause does not catch.
GetShortLinkGet(p) ==
    /\ req[p].pc = "recv" /\ req[p].op = "get_short_link"
    /\ LET r == req[p]
           n == Count(short_link, LinksOf(r.pk))
       IN IF r.pk \notin DOMAIN recipe_tbl
          THEN /\ req' = [req EXCEPT ![p] = Done("Http404")]
               /\ issued' = issued
          ELSE IF n = 0
          THEN /\ req' = [req EXCEPT ![p] = [r EXCEPT !.pc = "gen"]]
               /\ issued' = issued
          ELSE IF n = 1
          THEN \E row \in DOMAIN Filter(short_link, LinksOf(r.pk)) :
                  /\ req' = [req EXCEPT ![p] = DoneVal("Ok", row[2])]
                  /\ issued' = issued \cup {row}
          ELSE /\ req' = [req EXCEPT ![p] = Done("MultipleObjectsReturned")]
               /\ issued' = issued
    /\ UNCHANGED store

\* one turn of the while loop: a fresh token and the query whether a row
\* already carries it
GetShortLinkGenerate(p) ==
    /\ req[p].pc = "gen"
    /\ \E short_code \in Codes :
          IF Count(short_link, Recipes \X {short_code}) > 0
          THEN req' = req
          ELSE req' = [req EXCEPT ![p] =
                         [pc |-> "create", op |-> "get_short_link",
                          pk |-> req[p].pk, short_code |-> short_code]]
    /\ UNCHANGED <<store, issued>>

\* RecipeShortLink.objects.create(recipe=recipe, short_code=short_code) and
\* the response
GetShortLinkCreate(p) ==
    /\ req[p].pc = "create"
    /\ LET row == <<req[p].pk, req[p].short_code>>
       IN IF short_code_unique(short_link, row)
             /\ unique_short_code_for_recipe(short_link, row)
             /\ fk_recipe(row[1])
          THEN /\ short_link' = InsertRow(short_link, row)
               /\ req' = [req EXCEPT ![p] = DoneVal("Ok", row[2])]
               /\ issued' = issued \cup {row}
          ELSE /\ short_link' = short_link
               /\ req' = [req EXCEPT ![p] = Done("IntegrityError")]
               /\ issued' = issued
    /\ UNCHANGED <<refVars, recipeVars, toggleVars>>

ReceiveGetShortLink(p) == \E r \in GetShortLinkRequests : Receive(p, r)

NextLink ==
    \E p \in Procs :
        \/ ReceiveGetShortLink(p)
        \/ GetShortLinkGet(p)
        \/ GetShortLinkGenerate(p)
        \/ GetShortLinkCreate(p)

SpecLink == InitSeeded /\ [][NextLink]_vars

\* -------------------------------------------------- claims: the short links
\* C2: in every reachable state the store holds at most one RecipeShortLink
\* row per recipe, also after concurrent first requests for one recipe.
C2_OneLinkPerRecipe ==
    \A r \in Recipes : Count(short_link, LinksOf(r)) <= 1

\* C3: once get_short_link has answered a recipe with a code, every later
\* request for that recipe answers with the same code and neither creates
\* nor changes a RecipeShortLink row.
C3_Step(p) ==
    LET r == req[p] IN
    (/\ r.pc = "recv" /\ r.op = "get_short_link"
     /\ r.pk \in DOMAIN recipe_tbl
     /\ \E c \in Codes : <<r.pk, c>> \in issued
     /\ req'[p] # r)
    => /\ req'[p].pc = "done" /\ req'[p].res = "Ok"
       /\ \A c \in Codes : <<r.pk, c>> \in issued => req'[p].val = c
       /\ short_link' = short_link
C3_Idempotent == [][\A p \in Procs : C3_Step(p)]_vars

\* C4: in every reachable state no two RecipeShortLink rows carry the same
\* short_code.
C4_CodesUnique ==
    \A c \in Codes : Count(short_link, Recipes \X {c}) <= 1

\* A request drew a code that was free at its query and, before its create,
\* the row of another recipe took that code.
C4_Witness ==
    \E p \in Procs :
        /\ req[p].pc = "create"
        /\ \E r \in Recipes \ {req[p].pk} :
              RowExists(short_link, <<r, req[p].short_code>>)

\* ------------------------------------- RecipeCreateSerializer (serializers.py)
Range(f) == {f[k] : k \in DOMAIN f}
SeqsUpTo(S, n) == UNION {[1..k -> S] : k \in 0..n}

\* A list field of a request body: given with its items, or left out.
ListField(items, n) ==
    {[given |-> TRUE, val |-> v] : v \in SeqsUpTo(items, n)}
        \cup {[given |-> FALSE, val |-> <<>>]}
\* request bodies: ingredients are <<id, amount>> items, tags are tag ids
Bodies ==
    [ingredients : ListField(IngredientPks \X Amounts, MaxLen),
     tags : ListField(TagPks, MaxLen)]
\* the bodies sent while other writers are at work on the recipes
ShortBodies ==
    [ingredients : {[given |-> TRUE, val |-> v] :
                       v \in SeqsUpTo(Ingredients \X {AMOUNT_MIN_VALUE}, MaxLines)},
     tags : {[given |-> TRUE, val |-> v] : v \in SeqsUpTo(Tags, MaxLines)}]

RecipeCreateRequests(B) ==
    [pc : {"recv"}, op : {"create"}, user : user_tbl, data : B]
RecipeUpdateRequests(B) ==
    [pc : {"recv"}, op : {"update"}, user : user_tbl, pk : Recipes, data : B]

\* permissions.IsAuthenticatedAuthorOrReadOnly on a write to a recipe
IsAuthenticatedAuthorOrReadOnly(user, recipe) == user = recipe.author

\* The fields' own validation, run before validate(): the PrimaryKeyRelated
\* fields look every id up, and a field left out of a request that is not
\* partial is refused as required (reported here with the empty collections).
to_internal_value(partial, data) ==
    IF \E k \in DOMAIN data.ingredients.val :
           data.ingredients.val[k][1] \notin DOMAIN ingredient_tbl
    THEN "UnknownReference"
    ELSE IF \E k \in DOMAIN data.tags.val : data.tags.val[k] \notin Tags
    THEN "UnknownReference"
    ELSE IF ~partial /\ (~data.ingredients.given \/ ~data.tags.given)
    THEN "EmptyCollection"
    ELSE "ok"

\* RecipeCreateSerializer.validate; data.get() of a field left out is None
validate_notags(data) ==
    LET ingredients == data.ingredients
        ingredient_ids == [k \in DOMAIN ingredients.val |-> ingredients.val[k][1]]
    IN IF ~ingredients.given \/ ingredients.val = <<>>
       THEN "EmptyCollection"
       ELSE IF Len(ingredient_ids) # Cardinality(Range(ingredient_ids))
       THEN "DuplicateEntry"
       ELSE "ok"
validate(data) ==
    LET ingredients == data.ingredients
        tags == data.tags
        ingredient_ids == [k \in DOMAIN ingredients.val |-> ingredients.val[k][1]]
    IN IF ~ingredients.given \/ ingredients.val = <<>>
       THEN "EmptyCollection"
       ELSE IF Len(ingredient_ids) # Cardinality(Range(ingredient_ids))
       THEN "DuplicateEntry"
       ELSE IF ~tags.given \/ tags.val = <<>>
       THEN "EmptyCollection"
       ELSE IF Len(tags.val) # Cardinality(Range(tags.val))
       THEN "DuplicateEntry"
       ELSE "ok"

\* serializer.is_valid(raise_exception=True)
is_valid(partial, data) ==
    IF to_internal_value(partial, data) # "ok"
    THEN to_internal_value(partial, data)
    ELSE validate(data)

\* the request once validated: what is left to write
Writing(pc, op, pk, author, data) ==
    [pc |-> pc, op |-> op, pk |-> pk, author |-> author, data |-> data,
     tags |-> Range(data.tags.val), todo |-> data.ingredients.val]

\* POST /recipes/: is_valid, then create() up to Recipe.objects.create
RecipeCreateCheck(p) ==
    /\ req[p].pc = "recv" /\ req[p].op = "create"
    /\ recipe_seq < MaxRecipe
    /\ LET r == req[p]
           verdict == is_valid(FALSE, r.data)
           id == recipe_seq + 1
       IN IF verdict # "ok" \/ ~fk_user(r.user)
          THEN /\ req' = [req EXCEPT ![p] =
                            Done(IF verdict # "ok" THEN verdict ELSE "IntegrityError")]
               /\ UNCHANGED <<recipe_seq, recipe_tbl, recipe_tags>>
          ELSE /\ recipe_seq' = id
               /\ recipe_tbl' = (id :> [author |-> r.user]) @@ recipe_tbl
               /\ recipe_tags' = (id :> {}) @@ recipe_tags
               /\ req' = [req EXCEPT ![p] = Writing("tags", "create", id, r.user, r.data)]
    /\ UNCHANGED <<refVars, ingredient_list, toggleVars, short_link, issued>>

\* PATCH /recipes/{pk}/: get_object with its permission check, then is_valid
RecipeUpdateCheck(p) ==
    /\ req[p].pc = "recv" /\ req[p].op = "update"
    /\ LET r == req[p]
           verdict == is_valid(TRUE, r.data)
       IN req' = [req EXCEPT ![p] =
                    IF r.pk \notin DOMAIN recipe_tbl THEN Done("Http404")
                    ELSE IF ~IsAuthenticatedAuthorOrReadOnly(r.user, recipe_tbl[r.pk])
                    THEN Done("Forbidden")
                    ELSE IF verdict # "ok" THEN Done(verdict)
                    ELSE Writing("tags", "update", r.pk, recipe_tbl[r.pk].author, r.data)]
    /\ UNCHANGED <<store, issued>>

\* recipe.tags.set(tags): the rows of the link table point at the recipe
RecipeSetTags(p) ==
    /\ req[p].pc = "tags"
    /\ IF fk_recipe(req[p].pk)
       THEN /\ recipe_tags' = [recipe_tags EXCEPT ![req[p].pk] = req[p].tags]
            /\ req' = [req EXCEPT ![p] =
                         [req[p] EXCEPT !.pc = IF req[p].op = "create" THEN "add" ELSE "delete",
                                        !.tags = {}]]
       ELSE /\ recipe_tags' = recipe_tags
            /\ req' = [req EXCEPT ![p] = Done("IntegrityError")]
    /\ UNCHANGED <<refVars, recipe_seq, recipe_tbl, ingredient_list,
                   toggleVars, short_link, issued>>

\* recipe.ingredient_list.all().delete()
RecipeDeleteLines(p) ==
    /\ req[p].pc = "delete"
    /\ ingredient_list' =
          DeleteRows(ingredient_list, {x \in DOMAIN ingredient_list : x[1] = req[p].pk})
    /\ req' = [req EXCEPT ![p] = [req[p] EXCEPT !.pc = "add"]]
    /\ UNCHANGED <<refVars, recipe_seq, recipe_tbl, recipe_tags,
                   toggleVars, short_link, issued>>

\* add_ingredients: one IngredientInRecipe.objects.create per turn of the loop;
\* after the last one create() answers and update() goes on to save the recipe
RecipeAddLine(p) ==
    /\ req[p].pc = "add"
    /\ LET r == req[p]
           row == <<r.pk, Head(r.todo)[1], Head(r.todo)[2]>>
       IN IF unique_ingredient_in_recipe(ingredient_list, row)
             /\ fk_recipe(row[1]) /\ fk_ingredient(row[2])
          THEN /\ ingredient_list' = InsertRow(ingredient_list, row)
               /\ req' = [req EXCEPT ![p] =
                            IF Tail(r.todo) # <<>> THEN [r EXCEPT !.todo = Tail(r.todo)]
                            ELSE IF r.op = "create" THEN Done("Created")
                            ELSE [r EXCEPT !.pc = "save", !.todo = <<>>]]
          ELSE /\ ingredient_list' = ingredient_list
               /\ req' = [req EXCEPT ![p] = Done("IntegrityError")]
    /\ UNCHANGED <<refVars, recipe_seq, recipe_tbl, recipe_tags,
                   toggleVars, short_link, issued>>

\* Meta.fields of RecipeCreateSerializer has no 'author': whatever author a
\* body names is not in validated_data, and the instance keeps its own
update_author_from_body(instance_author, named) == named
update_author(instance_author, named) == instance_author

\* super().update(recipe, validated_data): the instance read by get_object
\* is written back with the new scalar fields; save() updates the row of
\* its id and inserts the row when no row has that id any more
RecipeSave(p) ==
    /\ req[p].pc = "save"
    /\ \E named \in Users :
          LET author == update_author(req[p].author, named)
              answer == DoneVal("Updated", [pk |-> req[p].pk, data |-> req[p].data])
          IN IF fk_recipe(req[p].pk)
             THEN /\ recipe_tbl' = [recipe_tbl EXCEPT ![req[p].pk] = [author |-> author]]
                  /\ recipe_tags' = recipe_tags
                  /\ req' = [req EXCEPT ![p] = answer]
             ELSE IF fk_user(author)
             THEN /\ recipe_tbl' = (req[p].pk :> [author |-> author]) @@ recipe_tbl
                  /\ recipe_tags' = (req[p].pk :> {}) @@ recipe_tags
                  /\ req' = [req EXCEPT ![p] = answer]
             ELSE /\ UNCHANGED <<recipe_tbl, recipe_tags>>
                  /\ req' = [req EXCEPT ![p] = Done("IntegrityError")]
    /\ UNCHANGED <<refVars, recipe_seq, ingredient_list,
                   toggleVars, short_link, issued>>

RecipeSteps(p) ==
    \/ RecipeCreateCheck(p)
    \/ RecipeUpdateCheck(p)
    \/ RecipeSetTags(p)
    \/ RecipeDeleteLines(p)
    \/ RecipeAddLine(p)
    \/ RecipeSave(p)

\* One worker holds a recipe request, any body within the bounds, and
\* carries it through.
InitValidate ==
    /\ user_tbl = Users
    /\ ingredient_tbl = SeedIngredients
    /\ recipe_seq = MaxRecipe - 1
    /\ recipe_tbl = [x \in 1..(MaxRecipe - 1) |-> [author |-> 1]]
    /\ recipe_tags = [x \in 1..(MaxRecipe - 1) |-> {1}]
    /\ ingredient_list = SetToBag({<<x, 1, 1>> : x \in 1..(MaxRecipe - 1)})
    /\ shopping_cart = EmptyBag
    /\ favorites = EmptyBag
    /\ subscribers = EmptyBag
    /\ short_link = EmptyBag
    /\ issued = {}
    /\ \E r \in RecipeCreateRequests(Bodies) \cup RecipeUpdateRequests(Bodies) :
          req = [p \in Procs |-> IF p = 1 THEN r ELSE Idle]

NextValidate == \E p \in Procs : RecipeSteps(p)

SpecValidate == InitValidate /\ [][NextValidate]_vars

\* Recipe requests with short bodies, served concurrently.
ReceiveRecipeCreate(p) ==
    /\ recipe_seq + Cardinality({q \in Procs : req[q].pc = "recv" /\ req[q].op = "create"})
          < MaxRecipe
    /\ \E r \in RecipeCreateRequests(ShortBodies) : Receive(p, r)
ReceiveRecipeUpdate(p) == \E r \in RecipeUpdateRequests(ShortBodies) : Receive(p, r)

NextRecipe ==
    \E p \in Procs :
        \/ ReceiveRecipeCreate(p)
        \/ ReceiveRecipeUpdate(p)
        \/ RecipeSteps(p)

SpecRecipe == InitOneFree /\ [][NextRecipe]_vars

\* ------------------------------------------------- claims: recipe write path
\* a list of the body is empty or left out
Emptyish(d) ==
    \/ ~d.ingredients.given \/ d.ingredients.val = <<>>
    \/ ~d.tags.given \/ d.tags.val = <<>>
\* an ingredient id or a tag occurs twice in its list
Dupish(d) ==
    \/ \E i, j \in DOMAIN d.ingredients.val :
          i < j /\ d.ingredients.val[i][1] = d.ingredients.val[j][1]
    \/ \E i, j \in DOMAIN d.tags.val : i < j /\ d.tags.val[i] = d.tags.val[j]
\* the body names an ingredient or a tag that is not stored
Unknownish(d) ==
    \/ \E i \in DOMAIN d.ingredients.val : d.ingredients.val[i][1] \notin Ingredients
    \/ \E i \in DOMAIN d.tags.val : d.tags.val[i] \notin Tags
\* the failures that name something wrong with the body
Applicable(d) ==
    (IF Emptyish(d) THEN {"EmptyCollection"} ELSE {})
        \cup (IF Dupish(d) THEN {"DuplicateEntry"} ELSE {})
        \cup (IF Unknownish(d) THEN {"UnknownReference"} ELSE {})
\* the request gets as far as its serializer
ReachesSerializer(r) ==
    r.op = "update" =>
        r.pk \in DOMAIN recipe_tbl /\ r.user = recipe_tbl[r.pk].author

\* C8: a recipe create or update whose ingredient list or tag list is empty
\* or left out fails with EmptyCollection, one with a repeated ingredient id
\* or tag fails with DuplicateEntry (a body with several faults fails with
\* the failure of one of them), and the failing request leaves the store
\* unchanged: no recipe, ingredient line or tag link is created, changed or
\* deleted.
C8_Step(p) ==
    LET r == req[p] IN
    (/\ r.pc = "recv" /\ r.op \in {"create", "update"}
     /\ ReachesSerializer(r)
     /\ Emptyish(r.data) \/ Dupish(r.data)
     /\ req'[p] # r)
    => /\ req'[p].pc = "done"
       /\ req'[p].res \in Applicable(r.data)
       /\ UNCHANGED store
C8_InvalidCollectionsRejected == [][\A p \in Procs : C8_Step(p)]_vars

\* A body was refused for a repeated entry and the store is the initial one.
C8_Witness ==
    /\ \E p \in Procs : req[p].pc = "done" /\ req[p].res = "DuplicateEntry"
    /\ recipe_seq = MaxRecipe - 1
    /\ DOMAIN recipe_tbl = 1..(MaxRecipe - 1)
    /\ ingredient_list = SetToBag({<<x, 1, 1>> : x \in 1..(MaxRecipe - 1)})

\* C9: in every reachable state the ingredient lines of a recipe hold every
\* ingredient id at most once.
C9_LinesUnique ==
    \A r \in Recipes, i \in Ingredients :
        Count(ingredient_list, {r} \X {i} \X Amounts) <= 1

\* Two writers of one recipe raced on a line and the unique constraint
\* stopped the second insert.
C9_Witness ==
    \E p \in Procs :
        /\ req[p].pc = "done" /\ req[p].res = "IntegrityError"
        /\ \E r \in Recipes, i \in Ingredients :
              Count(ingredient_list, {r} \X {i} \X Amounts) = 1

\* ---------------------------------------- RecipeViewSet.download_shopping_cart
DownloadRequests == [pc : {"recv"}, op : {"download_shopping_cart"}, user : user_tbl]

\* IngredientInRecipe.objects.filter(recipe__shopping_cart__user=user): the
\* join of the lines with the user's cart rows, a line once per cart row
CartLines_anyuser(user) ==
    [l \in {x \in DOMAIN ingredient_list :
               \E u \in user_tbl : RowExists(shopping_cart, <<u, x[1]>>)}
        |-> ingredient_list[l]]
CartLines(user) ==
    [l \in {x \in DOMAIN ingredient_list : RowExists(shopping_cart, <<user, x[1]>>)}
        |-> ingredient_list[l] * CopiesIn(<<user, l[1]>>, shopping_cart)]

\* Sum('amount') over the joined rows in rows
RECURSIVE SumAmount(_, _)
SumAmount(joined, rows) ==
    IF rows = {} THEN 0
    ELSE LET x == CHOOSE y \in rows : TRUE
         IN joined[x] * x[3] + SumAmount(joined, rows \ {x})

\* .values('ingredient__name', 'ingredient__measurement_unit')
\* .annotate(total_amount=Sum('amount')): one row per group
Annotated(joined) ==
    {<<g[1], g[2], SumAmount(joined, {l \in DOMAIN joined : ingredient_tbl[l[2]] = g})>> :
        g \in {ingredient_tbl[l[2]] : l \in DOMAIN joined}}

\* the orders in which the store may return the rows of a query without
\* order_by
Orders(rows) ==
    {s \in [1..Cardinality(rows) -> rows] : Range(s) = rows}

\* ingredients.exists()
ingredients_exists_always(user) == TRUE
ingredients_exists(user) == DOMAIN CartLines(user) # {}

\* if not ingredients.exists(): raise ValidationError
DownloadCheck(p) ==
    /\ req[p].pc = "recv" /\ req[p].op = "download_shopping_cart"
    /\ req' = [req EXCEPT ![p] =
                 IF ~ingredients_exists(req[p].user)
                 THEN Done("EmptyCollection")
                 ELSE [req[p] EXCEPT !.pc = "list"]]
    /\ UNCHANGED <<store, issued>>

\* for ingredient in ingredients: the query runs and every row gives a line
DownloadList(p) ==
    /\ req[p].pc = "list"
    /\ \E lines \in Orders(Annotated(CartLines(req[p].user))) :
          req' = [req EXCEPT ![p] = [pc |-> "done", res |-> "Ok", report |-> lines,
                                     user |-> req[p].user]]
    /\ UNCHANGED <<store, issued>>

ReceiveDownload(p) == \E r \in DownloadRequests : Receive(p, r)

\* Stores to list from: an ingredient table in which names and units may
\* repeat, any lines that keep an ingredient once per recipe, and any carts
\* that keep a recipe once per user.
Names == {"egg", "flour"}
Units == {"g", "cup"}
InitCartList ==
    /\ user_tbl = Users
    /\ ingredient_tbl \in {t \in [Ingredients -> Names \X Units] : t[1] = <<"egg", "g">>}
    /\ recipe_seq = MaxRecipe
    /\ recipe_tbl = [r \in Recipes |-> [author |-> 1]]
    /\ recipe_tags = [r \in Recipes |-> {1}]
    /\ \E f \in [Recipes \X Ingredients -> 0..MaxAmount] :
          ingredient_list =
              SetToBag({<<x[1], x[2], f[x]>> : x \in {y \in Recipes \X Ingredients : f[y] > 0}})
    /\ \E S \in SUBSET (Users \X Recipes) : shopping_cart = SetToBag(S)
    /\ favorites = EmptyBag
    /\ subscribers = EmptyBag
    /\ short_link = EmptyBag
    /\ issued = {}
    /\ req = [p \in Procs |-> Idle]

NextCartList ==
    \E p \in Procs :
        \/ ReceiveDownload(p)
        \/ DownloadCheck(p)
        \/ DownloadList(p)

SpecCartList == InitCartList /\ [][NextCartList]_vars

\* -------------------------------------------------- claims: the shopping list
\* the amount of ingredient i in recipe r, 0 when the recipe has no such line
LineAmount(r, i) ==
    IF \E a \in Amounts : RowExists(ingredient_list, <<r, i, a>>)
    THEN CHOOSE a \in Amounts : RowExists(ingredient_list, <<r, i, a>>)
    ELSE 0
RECURSIVE SumLines(_)
SumLines(pairs) ==
    IF pairs = {} THEN 0
    ELSE LET x == CHOOSE y \in pairs : TRUE
         IN LineAmount(x[1], x[2]) + SumLines(pairs \ {x})
\* the (recipe, ingredient) lines of the recipes in the user's cart
InCart(user) ==
    {x \in Recipes \X Ingredients :
        RowExists(shopping_cart, <<user, x[1]>>) /\ LineAmount(x[1], x[2]) > 0}

\* C10: the report of download_shopping_cart has exactly one line per
\* distinct (name, unit) pair among the ingredient lines of the recipes in
\* the requesting user's cart, and the total of a line is the sum of the
\* amounts of those lines with that pair; no other line contributes.
C10_Step(p) ==
    LET r == req[p]
        report == req'[p].report
        mine == InCart(r.user)
    IN
    (r.pc = "list" /\ req'[p] # r)
    => /\ req'[p].pc = "done" /\ req'[p].res = "Ok"
       /\ {<<l[1], l[2]>> : l \in Range(report)} = {ingredient_tbl[x[2]] : x \in mine}
       /\ Len(report) = Cardinality({ingredient_tbl[x[2]] : x \in mine})
       /\ \A k \in DOMAIN report :
             report[k][3] =
                 SumLines({x \in mine : ingredient_tbl[x[2]] = <<report[k][1], report[k][2]>>})
       /\ UNCHANGED store
C10_ShoppingListTotals == [][\A p \in Procs : C10_Step(p)]_vars

\* A report with one line that adds up lines of two recipes for one
\* (name, unit) pair, while another user's cart holds a recipe that the
\* requesting user's cart does not.
C10_Witness ==
    \E p \in Procs :
        /\ req[p].pc = "done" /\ req[p].res = "Ok"
        /\ \E k \in DOMAIN req[p].report : req[p].report[k][3] > MaxAmount
        /\ \E u, v \in Users, r \in Recipes :
              /\ RowExists(shopping_cart, <<u, r>>)
              /\ ~RowExists(shopping_cart, <<v, r>>)

\* ------------------------------------------ downloads while the carts change
NextCartRace ==
    \E p \in Procs :
        \/ ReceiveShoppingCart(p)
        \/ ShoppingCartCheck(p)
        \/ ShoppingCartWrite(p)
        \/ ReceiveDownload(p)
        \/ DownloadCheck(p)
        \/ DownloadList(p)

SpecCartRace == InitSeeded /\ [][NextCartRace]_vars

\* C11: download_shopping_cart fails with EmptyCollection exactly when, at
\* its existence query, no ingredient line belongs to a recipe of the
\* requesting user's cart; otherwise it goes on to list and returns a
\* report; neither step changes the store.
C11_Step(p) ==
    LET r == req[p] IN
    /\ (r.pc = "recv" /\ r.op = "download_shopping_cart" /\ req'[p] # r)
       => /\ IF InCart(r.user) = {}
             THEN req'[p].pc = "done" /\ req'[p].res = "EmptyCollection"
             ELSE req'[p].pc = "list"
          /\ UNCHANGED store
    /\ (r.pc = "list" /\ req'[p] # r)
       => /\ req'[p].pc = "done" /\ req'[p].res = "Ok"
          /\ UNCHANGED store
C11_EmptyCartRejected == [][\A p \in Procs : C11_Step(p)]_vars

\* One download was refused for an empty cart and another returned a report
\* with a line.
C11_Witness ==
    \E p, q \in Procs :
        /\ req[p].pc = "done" /\ req[p].res = "EmptyCollection"
        /\ req[q].pc = "done" /\ req[q].res = "Ok"
        /\ "report" \in DOMAIN req[q] /\ Len(req[q].report) > 0

\* ------------------------------------------------- views.short_link_redirect
RedirectRequests == [pc : {"recv"}, op : {"short_link_redirect"}, short_code : Codes]

\* get_object_or_404(RecipeShortLink, short_code=short_code); Http404 is the
\* not-found answer
ShortLinkRedirectGet_any(p) ==
    /\ req[p].pc = "recv" /\ req[p].op = "short_link_redirect"
    /\ LET rows == DOMAIN Filter(short_link, Recipes \X Codes)
       IN IF rows = {}
          THEN req' = [req EXCEPT ![p] = Done("Http404")]
          ELSE \E row \in rows :
                  req' = [req EXCEPT ![p] =
                            [pc |-> "fetch", op |-> "short_link_redirect",
                             short_code |-> req[p].short_code, recipe |-> row[1]]]
    /\ UNCHANGED <<store, issued>>
ShortLinkRedirectGet(p) ==
    /\ req[p].pc = "recv" /\ req[p].op = "short_link_redirect"
    /\ LET rows == DOMAIN Filter(short_link, Recipes \X {req[p].short_code})
           n == Count(short_link, Recipes \X {req[p].short_code})
       IN IF n = 0
          THEN req' = [req EXCEPT ![p] = Done("Http404")]
          ELSE IF n = 1
          THEN \E row \in rows :
                  req' = [req EXCEPT ![p] =
                            [pc |-> "fetch", op |-> "short_link_redirect",
                             short_code |-> req[p].short_code, recipe |-> row[1]]]
          ELSE req' = [req EXCEPT ![p] = Done("MultipleObjectsReturned")]
    /\ UNCHANGED <<store, issued>>

\* recipe_link.recipe: the Recipe row is read through the foreign key, then
\* redirect(f'/api/recipes/{id}/')
ShortLinkRedirectFetch(p) ==
    /\ req[p].pc = "fetch"
    /\ req' = [req EXCEPT ![p] =
                 IF req[p].recipe \in DOMAIN recipe_tbl
                 THEN DoneVal("Redirect", req[p].recipe)
                 ELSE Done("DoesNotExist")]
    /\ UNCHANGED <<store, issued>>

ReceiveRedirect(p) == \E r \in RedirectRequests : Receive(p, r)

NextResolve ==
    \E p \in Procs :
        \/ ReceiveGetShortLink(p)
        \/ GetShortLinkGet(p)
        \/ GetShortLinkGenerate(p)
        \/ GetShortLinkCreate(p)
        \/ ReceiveRedirect(p)
        \/ ShortLinkRedirectGet(p)
        \/ ShortLinkRedirectFetch(p)

SpecResolve == InitSeeded /\ [][NextResolve]_vars

\* C12: short_link_redirect answers not-found when no RecipeShortLink row
\* carries the code, and otherwise redirects to the recipe of the row that
\* carries it, which is the recipe get_short_link issued the code for.
C12_Step(p) ==
    LET r == req[p] IN
    /\ (r.pc = "recv" /\ r.op = "short_link_redirect" /\ req'[p] # r)
       => /\ IF \A x \in Recipes : ~RowExists(short_link, <<x, r.short_code>>)
             THEN req'[p].pc = "done" /\ req'[p].res = "Http404"
             ELSE /\ req'[p].pc = "fetch"
                  /\ RowExists(short_link, <<req'[p].recipe, r.short_code>>)
                  /\ <<req'[p].recipe, r.short_code>> \in issued
          /\ UNCHANGED store
    /\ (r.pc = "fetch" /\ req'[p] # r)
       => /\ req'[p] = DoneVal("Redirect", r.recipe)
          /\ UNCHANGED store
C12_Resolution == [][\A p \in Procs : C12_Step(p)]_vars

\* A code was resolved to its recipe while another recipe holds a link too,
\* and a request for a code that no row carries was answered not-found.
C12_Witness ==
    \E p, q \in Procs :
        /\ req[p].pc = "done" /\ req[p].res = "Redirect"
        /\ \E c \in Codes, x \in Recipes \ {req[p].val} : RowExists(short_link, <<x, c>>)
        /\ req[q].pc = "done" /\ req[q].res = "Http404"

\* ------------------------ ModelViewSet.destroy and on_delete=models.CASCADE
DestroyUserRequests == [pc : {"recv"}, op : {"destroy_user"}, pk : UserPks]
DestroyRecipeRequests ==
    [pc : {"recv"}, op : {"destroy_recipe"}, user : user_tbl, pk : Recipes]

\* what is left to delete once the objects are collected
Deleting(users, recipes) ==
    [pc |-> "commit", op |-> "destroy", users |-> users, recipes |-> recipes]

\* DELETE /users/{pk}/: get_object, then delete() collects the recipes of
\* the user, the rows to delete with them (Recipe.author is on_delete=CASCADE)
DestroyUserCollect(p) ==
    /\ req[p].pc = "recv" /\ req[p].op = "destroy_user"
    /\ req' = [req EXCEPT ![p] =
                 IF req[p].pk \notin user_tbl THEN Done("Http404")
                 ELSE Deleting({req[p].pk},
                               {x \in DOMAIN recipe_tbl : recipe_tbl[x].author = req[p].pk})]
    /\ UNCHANGED <<store, issued>>

\* DELETE /recipes/{pk}/: get_object with its permission check
DestroyRecipeGet(p) ==
    /\ req[p].pc = "recv" /\ req[p].op = "destroy_recipe"
    /\ LET r == req[p]
       IN req' = [req EXCEPT ![p] =
                    IF r.pk \notin DOMAIN recipe_tbl THEN Done("Http404")
                    ELSE IF ~IsAuthenticatedAuthorOrReadOnly(r.user, recipe_tbl[r.pk])
                    THEN Done("Forbidden")
                    ELSE Deleting({}, {r.pk})]
    /\ UNCHANGED <<store, issued>>

\* The delete transaction: the rows that point at the collected users and
\* recipes go (every foreign key to them is on_delete=CASCADE), then the
\* recipes and the users.  A recipe of a collected user that was not
\* collected still points at the user: the store refuses the commit and
\* nothing is deleted.
CascadeCommit(p) ==
    /\ req[p].pc = "commit"
    /\ LET U == req[p].users
           R == req[p].recipes
           kept == (DOMAIN recipe_tbl) \ R
       IN IF \E x \in kept : recipe_tbl[x].author \in U
          THEN /\ req' = [req EXCEPT ![p] = Done("IntegrityError")]
               /\ UNCHANGED store
          ELSE /\ subscribers' =
                     DeleteRows(subscribers,
                                {x \in DOMAIN subscribers : x[1] \in U \/ x[2] \in U})
               /\ shopping_cart' =
                     DeleteRows(shopping_cart,
                                {x \in DOMAIN shopping_cart : x[1] \in U \/ x[2] \in R})
               /\ favorites' =
                     DeleteRows(favorites,
                                {x \in DOMAIN favorites : x[1] \in U \/ x[2] \in R})
               /\ ingredient_list' =
                     DeleteRows(ingredient_list,
                                {x \in DOMAIN ingredient_list : x[1] \in R})
               /\ short_link' =
                     DeleteRows(short_link, {x \in DOMAIN short_link : x[1] \in R})
               /\ recipe_tags' = [x \in kept |-> recipe_tags[x]]
               /\ recipe_tbl' = [x \in kept |-> recipe_tbl[x]]
               /\ user_tbl' = user_tbl \ U
               /\ UNCHANGED <<ingredient_tbl, recipe_seq>>
               /\ req' = [req EXCEPT ![p] = Done("NoContent")]
    /\ UNCHANGED issued

\* A store with rows in every relation, about to serve one request per
\* worker: deletions and the requests that write rows pointing at users and
\* recipes, in any pairing.
CascadeRequests ==
    DestroyUserRequests \cup DestroyRecipeRequests
        \cup SubscribeRequests \cup ShoppingCartRequests \cup FavoriteRequests
        \cup GetShortLinkRequests \cup RedirectRequests \cup DownloadRequests
        \cup RecipeCreateRequests(ShortBodies) \cup RecipeUpdateRequests(ShortBodies)

InitCascade ==
    /\ user_tbl = Users
    /\ ingredient_tbl = SeedIngredients
    /\ recipe_seq = MaxRecipe - 1
    /\ recipe_tbl = [x \in 1..(MaxRecipe - 1) |-> [author |-> 1]]
    /\ recipe_tags = [x \in 1..(MaxRecipe - 1) |-> {1}]
    /\ ingredient_list = SetToBag({<<x, 1, 1>> : x \in 1..(MaxRecipe - 1)})
    /\ shopping_cart = SetToBag({<<1, x>> : x \in 1..(MaxRecipe - 1)})
    /\ favorites = SetToBag({<<2, x>> : x \in 1..(MaxRecipe - 1)})
    /\ subscribers = SetToBag({<<1, 2>>})
    /\ short_link \in {EmptyBag, SetToBag({<<1, 1>>})}
    /\ issued = DOMAIN short_link
    /\ req \in {f \in [Procs -> CascadeRequests] :
                    recipe_seq + Cardinality({p \in Procs : f[p].op = "create"}) <= MaxRecipe}

NextCascade ==
    \E p \in Procs :
        \/ DestroyUserCollect(p)
        \/ DestroyRecipeGet(p)
        \/ CascadeCommit(p)
        \/ SubscribeCheck(p)
        \/ SubscribeWrite(p)
        \/ ShoppingCartCheck(p)
        \/ ShoppingCartWrite(p)
        \/ FavoriteCheck(p)
        \/ FavoriteWrite(p)
        \/ GetShortLinkGet(p)
        \/ GetShortLinkGenerate(p)
        \/ GetShortLinkCreate(p)
        \/ ShortLinkRedirectGet(p)
        \/ ShortLinkRedirectFetch(p)
        \/ DownloadCheck(p)
        \/ DownloadList(p)
        \/ RecipeSteps(p)

SpecCascade == InitCascade /\ [][NextCascade]_vars

\* every row points at rows that exist
NoDangling ==
    /\ \A x \in DOMAIN recipe_tbl : recipe_tbl[x].author \in user_tbl
    /\ DOMAIN recipe_tags = DOMAIN recipe_tbl
    /\ \A x \in DOMAIN ingredient_list :
          x[1] \in DOMAIN recipe_tbl /\ x[2] \in DOMAIN ingredient_tbl
    /\ \A x \in DOMAIN shopping_cart : x[1] \in user_tbl /\ x[2] \in DOMAIN recipe_tbl
    /\ \A x \in DOMAIN favorites : x[1] \in user_tbl /\ x[2] \in DOMAIN recipe_tbl
    /\ \A x \in DOMAIN short_link : x[1] \in DOMAIN recipe_tbl
    /\ \A x \in DOMAIN subscribers : x[1] \in user_tbl /\ x[2] \in user_tbl

\* C13: a user delete that succeeds removes the user and every recipe whose
\* author the user is; in every reachable state no ingredient line, cart
\* entry, favorite entry, short link, subscription or recipe points at a
\* recipe or user that does not exist; and a redirect request received for
\* a code never leads to a recipe that does not exist.
C13_DeleteStep(p) ==
    LET r == req[p] IN
    /\ (/\ r.pc = "commit" /\ r.users # {}
        /\ req'[p].pc = "done" /\ req'[p].res = "NoContent")
       => /\ user_tbl' \cap r.users = {}
          /\ \A x \in DOMAIN recipe_tbl' : recipe_tbl'[x].author \notin r.users
    /\ (/\ r.pc = "recv" /\ r.op = "short_link_redirect"
        /\ \A x \in DOMAIN recipe_tbl : ~RowExists(short_link, <<x, r.short_code>>)
        /\ req'[p] # r)
       => req'[p].pc = "done" /\ req'[p].res = "Http404"
C13_CascadeDelete ==
    /\ []NoDangling
    /\ [][\A p \in Procs : C13_DeleteStep(p)]_vars

\* The author of the seeded recipe is deleted with the recipe, while a
\* cart add that found the recipe is still to write its row.
C13_Witness ==
    \E p, q \in Procs :
        /\ req[p].pc = "done" /\ req[p].res = "NoContent"
        /\ 1 \notin user_tbl /\ DOMAIN recipe_tbl = {}
        /\ req[q].pc = "write" /\ req[q].op = "shopping_cart"
        /\ req[q].method = "POST"

\* ------------------------------------------------- claims: how requests end
\* what a handler answers with, and the failures of the error taxonomy
\* (Http404 is the not-found answer of get_object_or_404)
ResultValues == {"Created", "Updated", "NoContent", "Ok", "Redirect"}
TypedFailures ==
    {"EmptyCollection", "DuplicateEntry", "UnknownReference", "SelfReference",
     "AlreadyExists", "NotFound", "Http404"}

\* C14: every request to the toggle, short-link and recipe operations ends,
\* under any interleaving, in a result value or in a typed failure, never
\* in an error of the store such as the uniqueness violation of the losing
\* side of two concurrent adds or a multiple-rows failure of a lookup.
C14_TypedOutcomes ==
    \A p \in Procs :
        req[p].pc = "done" => req[p].res \in ResultValues \cup TypedFailures

\* C15: the order of the shopping list is deterministic: two downloads by
\* one user from one state of the store list the same groups in the same
\* order.  (No request of SpecCartList writes, so the store is the same for
\* all its downloads.)
C15_DeterministicOrder ==
    \A p, q \in Procs :
        (/\ req[p].pc = "done" /\ req[p].res = "Ok"
         /\ req[q].pc = "done" /\ req[q].res = "Ok"
         /\ req[p].user = req[q].user)
        => req[p].report = req[q].report

\* ------------------------------------------- claims: the code retry loop
FreeCodes == {c \in Codes : \A x \in Recipes : ~RowExists(short_link, <<x, c>>)}

\* C16: a first-time get_short_link request leaves its loop only with a
\* code that no row of the store carries at that attempt, and then stores
\* the (recipe, code) row once and answers with that code.
C16_Step(p) ==
    LET r == req[p] IN
    /\ (r.pc = "gen" /\ req'[p] # r)
       => /\ req'[p].pc = "create" /\ req'[p].pk = r.pk
          /\ req'[p].short_code \in FreeCodes
          /\ UNCHANGED store
    /\ (r.pc = "create" /\ req'[p] # r)
       => /\ short_link' = InsertRow(short_link, <<r.pk, r.short_code>>)
          /\ Count(short_link', {<<r.pk, r.short_code>>}) = 1
          /\ req'[p] = DoneVal("Ok", r.short_code)
C16_RetryThenPersist == [][\A p \in Procs : C16_Step(p)]_vars

\* The loop on its own: with a fair draw, a request in the loop leaves it
\* or the free codes run out.
SpecLinkFair ==
    /\ SpecLink
    /\ \A p \in Procs : WF_vars(GetShortLinkGenerate(p) /\ req'[p].pc = "create")
C16_LoopTerminates ==
    \A p \in Procs :
        (req[p].pc = "gen" /\ FreeCodes # {}) ~> (req[p].pc # "gen" \/ FreeCodes = {})

\* ---------------------------------------------- two updates of the recipes
\* Each worker holds one PATCH, or none, and carries it through.
InitUpdate ==
    /\ user_tbl = Users
    /\ ingredient_tbl = SeedIngredients
    /\ recipe_seq = MaxRecipe
    /\ recipe_tbl = [x \in Recipes |-> [author |-> 1]]
    /\ recipe_tags = [x \in Recipes |-> {1}]
    /\ ingredient_list = SetToBag({<<x, 1, 1>> : x \in Recipes})
    /\ shopping_cart = EmptyBag
    /\ favorites = EmptyBag
    /\ subscribers = EmptyBag
    /\ short_link = EmptyBag
    /\ issued = {}
    /\ req \in [Procs -> RecipeUpdateRequests(ShortBodies) \cup {Idle}]

NextUpdate ==
    \E p \in Procs :
        \/ RecipeUpdateCheck(p)
        \/ RecipeSetTags(p)
        \/ RecipeDeleteLines(p)
        \/ RecipeAddLine(p)
        \/ RecipeSave(p)

SpecUpdate == InitUpdate /\ [][NextUpdate]_vars

\* the successful updates of recipe r that have been answered
Updated(r) ==
    {p \in Procs : req[p].pc = "done" /\ req[p].res = "Updated" /\ req[p].val.pk = r}

\* C17: once every update request has completed successfully, the lines of
\* an updated recipe are exactly the (ingredient, amount) pairs of one of
\* its update requests and its tags exactly the tags of that request.
C17_WholeReplace ==
    (\A p \in Procs : req[p].pc = "idle" \/ (req[p].pc = "done" /\ req[p].res = "Updated"))
    => \A r \in DOMAIN recipe_tbl :
          Updated(r) # {}
          => \E p \in Updated(r) :
                /\ DOMAIN ingredient_list =
                      {<<r, x[1], x[2]>> : x \in Range(req[p].val.data.ingredients.val)}
                         \cup {y \in DOMAIN ingredient_list : y[1] # r}
                /\ \A y \in DOMAIN ingredient_list : ingredient_list[y] = 1
                /\ recipe_tags[r] = Range(req[p].val.data.tags.val)

\* ------------------------------------------------ claims: the recipe author
\* C18: the author of a recipe is the user whose request created it and
\* never changes: no step of a recipe update, toggle, short-link, download
\* or delete request changes the author of a recipe that stays in the
\* store, and a recipe that enters the store has the user of the create
\* request as its author (or, written back by a save, the author it had).
C18_Step ==
    /\ \A x \in (DOMAIN recipe_tbl) \cap (DOMAIN recipe_tbl') :
          recipe_tbl'[x].author = recipe_tbl[x].author
    /\ \A x \in (DOMAIN recipe_tbl') \ (DOMAIN recipe_tbl) :
          \E p \in Procs :
             \/ /\ req[p].pc = "recv" /\ req[p].op = "create"
                /\ recipe_tbl'[x].author = req[p].user
             \/ /\ req[p].pc = "save" /\ req[p].pk = x
                /\ recipe_tbl'[x].author = req[p].author
C18_AuthorFixed == [][C18_Step]_vars

\* An update by the author has been saved while the other user holds a
\* recipe of their own.
C18_Witness ==
    /\ \E p \in Procs : req[p].pc = "done" /\ req[p].res = "Updated"
    /\ \E x \in DOMAIN recipe_tbl : recipe_tbl[x].author = 2

\* ------------------------------------------- claims: the frame of a toggle
\* C19: a step of a toggle request changes at most the entry of its own
\* (user, target) pair in its own relation: the other two relations, the
\* short links, the recipes with their tags and lines, the users, and every
\* other entry of its relation stay as they are; a subscription of u to a
\* leaves the entry of a to u as it is.
C19_Step(p) ==
    LET r == req[p] IN
    (/\ r.pc \in {"recv", "write"} /\ r.op \in ToggleOps
     /\ req'[p] # r)
    => /\ UNCHANGED <<refVars, recipeVars, short_link>>
       /\ \A op \in ToggleOps \ {r.op} : ToggleTblNext(op) = ToggleTbl(op)
       /\ OthersKept(ToggleTbl(r.op), ToggleTblNext(r.op), ToggleRow(r))
       /\ r.op = "subscribe" /\ r.user # r.pk
          => CopiesIn(<<r.user, r.pk>>, subscribers') = CopiesIn(<<r.user, r.pk>>, subscribers)
C19_ToggleFrame == [][\A p \in Procs : C19_Step(p)]_vars

\* A removal has been served and entries of other pairs are still there:
\* user 2 follows user 1 and not the other way round, and the cart and the
\* favorites hold entries.
C19_Witness ==
    /\ \E p \in Procs : req[p].pc = "done" /\ req[p].res = "NoContent"
    /\ RowExists(subscribers, <<1, 2>>) /\ ~RowExists(subscribers, <<2, 1>>)
    /\ shopping_cart # EmptyBag /\ favorites # EmptyBag

====
